---- MODULE Spec2Model ----
(***************************************************************************)
(* FINTEL AI anomaly-detection engine (AI-Agent/ml_trainer.py), class      *)
(* FintelMLTrainer: synthetic data generation, training, evaluation,       *)
(* persistence and inference.                                              *)
(*                                                                         *)
(* Numbers are integers: an amount is a whole number of currency units, a  *)
(* scaled feature is a fixed-point value with Prec units per 1.0.  The     *)
(* library objects (StandardScaler, IsolationForest, DBSCAN, pickle,       *)
(* train_test_split) are modelled by the state they keep and the errors    *)
(* they raise; the isolation forest's tree ensemble is replaced by a       *)
(* deterministic score over the fitted state.                              *)
(***************************************************************************)
EXTENDS Integers, Sequences, FiniteSets, TLC

VARIABLES models, scaler, is_trained, files, last

vars == <<models, scaler, is_trained, files, last>>

\* ------------------------------------------------------------------ bounds
\* Largest num_samples passed to generate_training_data.
MaxSamples == 2
\* Fixed-point units per 1.0 of a scaled feature.
Prec == 10

\* --------------------------------------------------------------- constants
NumFeatures == 8
NormalPercent == 80
NormalLo == 5000
NormalHi == 50000
NoiseAmp == 500
HighLo == 100000
HighHi == 500000
WeekendLo == 10000
WeekendHi == 30000
SuspiciousLo == 8000
SuspiciousHi == 40000
RemainderMod == 1000
TestPercent == 20
ContaminationPercent == 20
DbscanEpsTenths == 5
DbscanMinSamples == 5
ConfidenceFactor == 100

\* Denominator of a random fraction: random.random() is f / FracDen.
FracDen == 100

\* Two engines: A is the one main() builds and trains; B is a second
\* FintelMLTrainer() that gets its models from load_models only.
Engines == {"A", "B"}
Trainers == {"A"}
Paths == {"fintel_models.pkl"}

\* ------------------------------------------------------------ arithmetic
Abs(x) == IF x < 0 THEN -x ELSE x

RECURSIVE SumSeq(_)
SumSeq(s) == IF s = <<>> THEN 0 ELSE Head(s) + SumSeq(Tail(s))

\* Largest r in lo..hi with r * r <= x, by bisection (hi < 46341 keeps r * r
\* inside 32 bits).
RECURSIVE SqrtBetween(_, _, _)
SqrtBetween(x, lo, hi) ==
    IF lo >= hi THEN lo
    ELSE LET mid == (lo + hi + 1) \div 2 IN
         IF mid * mid <= x THEN SqrtBetween(x, mid, hi)
         ELSE SqrtBetween(x, lo, mid - 1)

\* np.sqrt, to whole units.
ISqrt(x) == SqrtBetween(x, 0, 46340)

\* ceil(a / b) for a >= 0, b > 0.
CeilDiv(a, b) == (a + b - 1) \div b

Column(X, j) == [i \in 1..Len(X) |-> X[i][j]]

\* np.log1p, to whole units: floor(ln(1 + x)) for x >= 0.
Log1p(x) ==
    LET y == x + 1 IN
    IF y >= 1202605 THEN 14
    ELSE IF y >= 442414 THEN 13
    ELSE IF y >= 162755 THEN 12
    ELSE IF y >= 59875 THEN 11
    ELSE IF y >= 22027 THEN 10
    ELSE IF y >= 8104 THEN 9
    ELSE IF y >= 2981 THEN 8
    ELSE IF y >= 1097 THEN 7
    ELSE IF y >= 404 THEN 6
    ELSE IF y >= 149 THEN 5
    ELSE IF y >= 55 THEN 4
    ELSE IF y >= 21 THEN 3
    ELSE IF y >= 8 THEN 2
    ELSE IF y >= 3 THEN 1
    ELSE 0

\* random.uniform(a, b) = a + (b - a) * random(), the draw being f / FracDen.
Uniform(a, b, f) == a + ((b - a) * f) \div FracDen

\* ------------------------------------------------- outcomes of a call
Returned(v) == [kind |-> "return", exc |-> "", val |-> v]
Raised(e) == [kind |-> "raise", exc |-> e, val |-> [none |-> TRUE]]
None == [none |-> TRUE]

\* ------------------------------------------------------- data sets
\* An array as numpy sees it: ndim 2 is a list of rows, ndim 1 a flat list.
Array(X, nd) == [ndim |-> nd, rows |-> X]

NRows(a) == Len(a.rows)
NCols(a) == IF a.ndim = 2 /\ Len(a.rows) > 0 THEN Len(a.rows[1]) ELSE 0

\* ------------------------------------------------- StandardScaler
\* StandardScaler(): nothing fitted.
NewScaler ==
    [fitted |-> FALSE, n_features_in |-> 0, n_samples_seen |-> 0,
     mean |-> <<>>, var |-> <<>>, scale |-> <<>>]

\* StandardScaler._reset: drops every fitted attribute.
ScalerReset(sc) == NewScaler

\* check_array as the scaler calls it: a 2-D array with at least one row and
\* one column; with a fitted scaler the column count must be the fitted one.
ScalerInputError(sc, a) ==
    IF a.ndim # 2 THEN "ValueError"
    ELSE IF NRows(a) = 0 \/ NCols(a) = 0 THEN "ValueError"
    ELSE IF sc.fitted /\ NCols(a) # sc.n_features_in THEN "ValueError"
    ELSE ""

\* _handle_zeros_in_scale: a constant column is scaled by 1.
ScaleOf(v) == LET r == ISqrt(v) IN IF r = 0 THEN 1 ELSE r

\* StandardScaler.partial_fit on a valid array: the running mean and variance
\* of every column over the samples seen so far and the new ones.
ScalerPartialFit(sc, a) ==
    LET X == a.rows
        m == Len(X)
        n0 == sc.n_samples_seen
        n == n0 + m
        d == NCols(a)
        newMean == [j \in 1..d |->
                      ((IF n0 = 0 THEN 0 ELSE sc.mean[j] * n0)
                       + SumSeq(Column(X, j))) \div n]
        dev(j) == [i \in 1..m |-> (X[i][j] - newMean[j]) * (X[i][j] - newMean[j])]
        newVar == [j \in 1..d |->
                     ((IF n0 = 0 THEN 0 ELSE sc.var[j] * n0)
                      + SumSeq(dev(j))) \div n]
    IN [fitted |-> TRUE, n_features_in |-> d, n_samples_seen |-> n,
        mean |-> newMean, var |-> newVar,
        scale |-> [j \in 1..d |-> ScaleOf(newVar[j])]]

\* A fit that keeps what an earlier fit accumulated.
ScalerFitNoReset(sc, a) ==
    IF ScalerInputError(sc, a) # "" THEN sc ELSE ScalerPartialFit(sc, a)

\* StandardScaler.fit: _reset(), then partial_fit; the reset comes first, so
\* a rejected array leaves the scaler unfitted.
ScalerFit(sc, a) ==
    IF ScalerInputError(ScalerReset(sc), a) # "" THEN ScalerReset(sc)
    ELSE ScalerPartialFit(ScalerReset(sc), a)

ScalerFitError(sc, a) == ScalerInputError(ScalerReset(sc), a)

\* StandardScaler.transform: check_is_fitted, then the input check.
ScalerTransformError(sc, a) ==
    IF ~sc.fitted THEN "NotFittedError" ELSE ScalerInputError(sc, a)

\* (x - mean) / scale for every entry, in fixed point.
ScalerTransform(sc, a) ==
    Array([i \in 1..NRows(a) |->
             [j \in 1..sc.n_features_in |->
                ((a.rows[i][j] - sc.mean[j]) * Prec) \div sc.scale[j]]], 2)

\* ------------------------------------------------- IsolationForest
\* Sum over the columns of |x_j - c_j|.
L1Dist(x, c) == SumSeq([j \in 1..Len(c) |-> Abs(x[j] - c[j])])

\* The k-th smallest (k from 0) of a non-empty sequence of numbers.
KthSmallest(s, k) ==
    CHOOSE v \in {s[i] : i \in 1..Len(s)} :
        /\ Cardinality({i \in 1..Len(s) : s[i] < v}) <= k
        /\ Cardinality({i \in 1..Len(s) : s[i] <= v}) > k

\* score_samples: the lower, the more isolated.  The forest of random_state
\* 42 is a fixed function of the training set; it is modelled by the distance
\* to the training set's centre.
ScoreSamples(center, x) == -L1Dist(x, center)

\* IsolationForest(contamination=0.2, random_state=42, n_estimators=100).fit:
\* offset_ is the contamination percentile of the training scores.
IsolationForestFit(a) ==
    LET X == a.rows
        m == Len(X)
        d == NCols(a)
        center == [j \in 1..d |-> SumSeq(Column(X, j)) \div m]
        scores == [i \in 1..m |-> ScoreSamples(center, X[i])]
    IN [n_features_in |-> d, center |-> center,
        offset |-> KthSmallest(scores, (ContaminationPercent * (m - 1)) \div 100)]

\* The detector's input check in predict and decision_function.
DetectorInputError(det, a) ==
    IF a.ndim # 2 \/ NRows(a) = 0 \/ NCols(a) = 0 THEN "ValueError"
    ELSE IF NCols(a) # det.n_features_in THEN "ValueError"
    ELSE ""

\* decision_function = score_samples - offset_.
DecisionFunction(det, x) == ScoreSamples(det.center, x) - det.offset

\* predict: -1 for an outlier (negative decision), 1 for an inlier.
IsoPredict(det, x) == IF DecisionFunction(det, x) < 0 THEN -1 ELSE 1

\* ------------------------------------------------------------ DBSCAN
\* Euclidean distance <= eps, both sides squared and in fixed point.
WithinEps(x, y) ==
    100 * SumSeq([j \in 1..Len(x) |-> (x[j] - y[j]) * (x[j] - y[j])])
        <= DbscanEpsTenths * DbscanEpsTenths * Prec * Prec

\* DBSCAN(eps=0.5, min_samples=5).fit: the core samples (at least min_samples
\* points within eps, itself included) and the noise points (no core sample
\* within eps).  It has no predict for new points.
DbscanFit(a) ==
    LET X == a.rows
        m == Len(X)
        core == {i \in 1..m :
                   Cardinality({k \in 1..m : WithinEps(X[i], X[k])}) >= DbscanMinSamples}
    IN [n_features_in |-> NCols(a), core_sample_indices |-> core,
        noise |-> {i \in 1..m : \A k \in core : ~WithinEps(X[i], X[k])}]

\* ------------------------------------------------- train_test_split
\* n_test = ceil(test_size * n), n_train = n - n_test.
NTest(n) == CeilDiv(TestPercent * n, 100)
NTrain(n) == n - NTest(n)

\* Arrays of different lengths, or a split that leaves the train set empty.
SplitError(data, labels) ==
    IF NRows(data) # Len(labels) THEN "ValueError"
    ELSE IF NRows(data) = 0 \/ NTrain(NRows(data)) = 0 THEN "ValueError"
    ELSE ""

\* The shuffle of random_state=42: one fixed permutation for each n (here
\* the reversal).
Permutation(n) == [i \in 1..n |-> n + 1 - i]

\* The first n_test shuffled indices are the test set, the rest the train set.
TestIdx(n) == [i \in 1..NTest(n) |-> Permutation(n)[i]]
TrainIdx(n) == [i \in 1..NTrain(n) |-> Permutation(n)[NTest(n) + i]]

Take(s, idx) == [i \in 1..Len(idx) |-> s[idx[i]]]

\* ------------------------------------------------------ dictionaries
EmptyDict == <<>>
DictSet(d, k, v) == [x \in (DOMAIN d) \cup {k} |-> IF x = k THEN v ELSE d[x]]
HasKey(d, k) == k \in DOMAIN d

\* ------------------------------------------------------ FintelMLTrainer
\* __init__: no models, an unfitted scaler, not trained.
NewEngine == [models |-> EmptyDict, scaler |-> NewScaler, is_trained |-> FALSE]

\* What a call leaves behind: the engine's state, what the caller gets (a
\* return value or an exception) and what was printed.
Result(st, ret, report) == [st |-> st, ret |-> ret, report |-> report]

\* np.where(iso_pred == -1, 1, 0) with the branches exchanged.
ToBinarySwapped(d) == IF d = -1 THEN 0 ELSE 1

\* np.where(iso_pred == -1, 1, 0): the detector's -1 / 1 to the label 1 / 0.
ToBinary(d) == IF d = -1 THEN 1 ELSE 0

\* f"{accuracy:.2%}": the percentage to two decimals, in hundredths of a
\* percent.
FormatPercent(num, den) == (2 * 10000 * num + den) \div (2 * den)

\* _evaluate_models(X_test, y_test), len(X_test) = len(y_test).
EvaluateModels(st, X_test, y_test) ==
    IF ~HasKey(st.models, "isolation_forest") THEN Result(st, Raised("KeyError"), None)
    ELSE IF DetectorInputError(st.models["isolation_forest"], X_test) # ""
    THEN Result(st, Raised("ValueError"), None)
    ELSE
      LET det == st.models["isolation_forest"]
          m == NRows(X_test)
          iso_pred == [i \in 1..m |-> ToBinary(IsoPredict(det, X_test.rows[i]))]
          hits == Cardinality({i \in 1..m : iso_pred[i] = y_test[i]})
      IN Result(st, Returned(None),
                [accuracy |-> [num |-> hits, den |-> m],
                 accuracy_text |-> FormatPercent(hits, m),
                 anomalies_detected |-> SumSeq(iso_pred),
                 actual_anomalies |-> SumSeq(y_test)])

\* train_models(training_data, labels).  Each statement that can raise ends
\* the call with what was assigned before it.
TrainModels(st, data, labels) ==
    IF SplitError(data, labels) # "" THEN Result(st, Raised("ValueError"), None)
    ELSE
      LET n == NRows(data)
          X_train == Array(Take(data.rows, TrainIdx(n)), data.ndim)
          X_test == Array(Take(data.rows, TestIdx(n)), data.ndim)
          y_test == Take(labels, TestIdx(n))
          sc == ScalerFit(st.scaler, X_train)
          st1 == [st EXCEPT !.scaler = sc]
      IN
      IF ScalerFitError(st.scaler, X_train) # ""
      THEN Result(st1, Raised(ScalerFitError(st.scaler, X_train)), None)
      ELSE IF ScalerTransformError(sc, X_train) # ""
      THEN Result(st1, Raised(ScalerTransformError(sc, X_train)), None)
      ELSE IF ScalerTransformError(sc, X_test) # ""
      THEN Result(st1, Raised(ScalerTransformError(sc, X_test)), None)
      ELSE
        LET X_train_scaled == ScalerTransform(sc, X_train)
            X_test_scaled == ScalerTransform(sc, X_test)
            m1 == DictSet(st.models, "isolation_forest", IsolationForestFit(X_train_scaled))
            m2 == DictSet(m1, "dbscan", DbscanFit(X_train_scaled))
            ev == EvaluateModels([st1 EXCEPT !.models = m2], X_test_scaled, y_test)
        IN IF ev.ret.kind = "raise" THEN ev
           ELSE Result([ev.st EXCEPT !.is_trained = TRUE], Returned(None), ev.report)

NotTrained == [error |-> "Models not trained yet!"]

\* predict_anomaly answering an untrained engine with a neutral score.
PredictAnomalyDefault(st, v) ==
    Result(st,
           Returned([is_anomaly |-> FALSE, anomaly_score |-> 0, confidence |-> 0,
                     method |-> "trained_isolation_forest"]),
           None)

\* predict_anomaly calling fit_transform where the code calls transform.
PredictAnomalyRefit(st, v) ==
    IF ~st.is_trained THEN Result(st, Returned(NotTrained), None)
    ELSE IF ScalerFitError(st.scaler, Array(<<v>>, 2)) # ""
    THEN Result([st EXCEPT !.scaler = ScalerFit(st.scaler, Array(<<v>>, 2))],
                Raised("ValueError"), None)
    ELSE IF ~HasKey(st.models, "isolation_forest") THEN Result(st, Raised("KeyError"), None)
    ELSE
      LET det == st.models["isolation_forest"]
          sc == ScalerFit(st.scaler, Array(<<v>>, 2))
          features_scaled == ScalerTransform(sc, Array(<<v>>, 2))
          x == features_scaled.rows[1]
      IN IF DetectorInputError(det, features_scaled) # ""
         THEN Result([st EXCEPT !.scaler = sc], Raised("ValueError"), None)
         ELSE Result([st EXCEPT !.scaler = sc],
                     Returned([is_anomaly |-> IsoPredict(det, x) = -1,
                               anomaly_score |-> DecisionFunction(det, x),
                               confidence |-> Abs(DecisionFunction(det, x)) * ConfidenceFactor,
                               method |-> "trained_isolation_forest"]),
                     None)

\* predict_anomaly(invoice_features).
PredictAnomaly(st, v) ==
    IF ~st.is_trained THEN Result(st, Returned(NotTrained), None)
    ELSE IF ScalerTransformError(st.scaler, Array(<<v>>, 2)) # ""
    THEN Result(st, Raised(ScalerTransformError(st.scaler, Array(<<v>>, 2))), None)
    ELSE IF ~HasKey(st.models, "isolation_forest") THEN Result(st, Raised("KeyError"), None)
    ELSE
      LET det == st.models["isolation_forest"]
          features_scaled == ScalerTransform(st.scaler, Array(<<v>>, 2))
          x == features_scaled.rows[1]
      IN IF DetectorInputError(det, features_scaled) # ""
         THEN Result(st, Raised("ValueError"), None)
         ELSE Result(st,
                     Returned([is_anomaly |-> IsoPredict(det, x) = -1,
                               anomaly_score |-> DecisionFunction(det, x),
                               confidence |-> Abs(DecisionFunction(det, x)) * ConfidenceFactor,
                               method |-> "trained_isolation_forest"]),
                     None)

\* ---------------------------------------------------------- pickle, files
True == [bool |-> TRUE]
False == [bool |-> FALSE]

\* What a path holds: nothing, a file that cannot be opened for reading,
\* bytes that are no pickle, or the pickle of a dict (its items in order).
MissingFile == [kind |-> "missing", items |-> <<>>]
UnreadableFile == [kind |-> "unreadable", items |-> <<>>]
GarbageFile == [kind |-> "garbage", items |-> <<>>]

\* pickle.dump of a dict given as its (key, value) items.
PickleDump(items) == [kind |-> "pickle", items |-> items]

\* open(filepath, 'rb') and pickle.load: the exception raised, if any.
PickleLoadError(file) ==
    IF file.kind = "missing" THEN "FileNotFoundError"
    ELSE IF file.kind = "unreadable" THEN "PermissionError"
    ELSE IF file.kind = "garbage" THEN "UnpicklingError"
    ELSE ""

\* The dict pickle.load gives back, by key.
PickleHas(file, k) == \E i \in 1..Len(file.items) : file.items[i][1] = k
PickleGet(file, k) ==
    file.items[CHOOSE i \in 1..Len(file.items) : file.items[i][1] = k][2]

\* save_models(filepath): what is written to the path.
SaveModels(st, now) ==
    PickleDump(<< <<"models", st.models>>, <<"scaler", st.scaler>>,
                  <<"is_trained", st.is_trained>>, <<"trained_at", now>> >>)

\* The body of the try block with the scaler never assigned.
LoadPickledNoScaler(st, file) ==
    IF PickleLoadError(file) # "" THEN Result(st, Raised(PickleLoadError(file)), None)
    ELSE IF ~PickleHas(file, "models") \/ ~PickleHas(file, "is_trained")
    THEN Result(st, Raised("KeyError"), None)
    ELSE Result([st EXCEPT !.models = PickleGet(file, "models"),
                           !.is_trained = PickleGet(file, "is_trained")],
                Returned(True), None)

\* The try block of load_models: open, pickle.load, then the three
\* assignments in order, each after its key was found.
LoadPickled(st, file) ==
    IF PickleLoadError(file) # "" THEN Result(st, Raised(PickleLoadError(file)), None)
    ELSE IF ~PickleHas(file, "models") THEN Result(st, Raised("KeyError"), None)
    ELSE
      LET st1 == [st EXCEPT !.models = PickleGet(file, "models")] IN
      IF ~PickleHas(file, "scaler") THEN Result(st1, Raised("KeyError"), None)
      ELSE
        LET st2 == [st1 EXCEPT !.scaler = PickleGet(file, "scaler")] IN
        IF ~PickleHas(file, "is_trained") THEN Result(st2, Raised("KeyError"), None)
        ELSE Result([st2 EXCEPT !.is_trained = PickleGet(file, "is_trained")],
                    Returned(True), None)

\* load_models whose handler also clears the trained flag.
LoadModelsClearing(st, file) ==
    IF LoadPickled(st, file).ret = Raised("FileNotFoundError")
    THEN Result([st EXCEPT !.is_trained = FALSE], Returned(False), None)
    ELSE LoadPickled(st, file)

\* load_models(filepath): only FileNotFoundError is caught and turned into
\* False; any other exception leaves the call.
LoadModels(st, file) ==
    IF LoadPickled(st, file).ret = Raised("FileNotFoundError")
    THEN Result(LoadPickled(st, file).st, Returned(False), None)
    ELSE LoadPickled(st, file)

\* ------------------------------------------------- synthetic invoices
\* The eight features of an invoice (lines 62-71 and 96-105); dr holds the
\* random integers drawn for the last five.
Features(amount, dr) ==
    <<amount, Log1p(amount), amount % RemainderMod,
      dr.dow, dr.dom, dr.month, dr.len, dr.digits>>

\* _generate_normal_invoice with the noise ten times as wide.
GenerateNormalInvoiceWide(dr) ==
    Features(Uniform(NormalLo, NormalHi, dr.u)
               + Uniform(-10 * NoiseAmp, 10 * NoiseAmp, dr.w), dr)

\* _generate_normal_invoice: uniform(5000, 50000) + uniform(-500, 500).
GenerateNormalInvoice(dr) ==
    Features(Uniform(NormalLo, NormalHi, dr.u) + Uniform(-NoiseAmp, NoiseAmp, dr.w), dr)

AnomalyTypes == <<"round_amount", "high_amount", "weekend", "suspicious_pattern">>
RoundAmounts == <<10000, 15000, 20000, 25000, 50000, 75000, 100000>>

\* _generate_anomalous_invoice: dr.t picks the archetype, dr.c the round
\* amount, dr.u the place in the archetype's band.
GenerateAnomalousInvoice(dr) ==
    LET anomaly_type == AnomalyTypes[dr.t]
        amount ==
          IF anomaly_type = "round_amount" THEN RoundAmounts[dr.c]
          ELSE IF anomaly_type = "high_amount" THEN Uniform(HighLo, HighHi, dr.u)
          ELSE IF anomaly_type = "weekend" THEN Uniform(WeekendLo, WeekendHi, dr.u)
          ELSE Uniform(SuspiciousLo, SuspiciousHi, dr.u)
    IN Features(amount, dr)

\* random.random() < 0.8, the draw being r / FracDen.
IsNormalDraw(dr) == dr.r * 100 < NormalPercent * FracDen

\* The loop of generate_training_data from sample i on; draws[i] holds what
\* the random module gives during iteration i (r is random.random()).
RECURSIVE GenerateLoop(_, _, _, _, _)
GenerateLoop(i, num_samples, draws, training_data, labels) ==
    IF i > num_samples THEN [training_data |-> training_data, labels |-> labels]
    ELSE IF IsNormalDraw(draws[i])
    THEN GenerateLoop(i + 1, num_samples, draws,
                      Append(training_data, GenerateNormalInvoice(draws[i])),
                      Append(labels, 0))
    ELSE GenerateLoop(i + 1, num_samples, draws,
                      Append(training_data, GenerateAnomalousInvoice(draws[i])),
                      Append(labels, 1))

\* The loop appending the label only for anomalous invoices.
GenerateTrainingDataSkipping(num_samples, draws) ==
    LET g == GenerateLoop(1, num_samples, draws, <<>>, <<>>) IN
    [features |-> Array(g.training_data, IF num_samples = 0 THEN 1 ELSE 2),
     labels |-> SelectSeq(g.labels, LAMBDA l : l = 1)]

\* generate_training_data(num_samples), num_samples >= 0: np.array of the
\* rows (of an empty list: a flat, empty array) and of the labels.
GenerateTrainingData(num_samples, draws) ==
    LET g == GenerateLoop(1, num_samples, draws, <<>>, <<>>) IN
    [features |-> Array(g.training_data, IF num_samples = 0 THEN 1 ELSE 2),
     labels |-> g.labels]

\* ----------------------------------------------------------------- inputs
Ints(dow, dom, month, len, digits) ==
    [dow |-> dow, dom |-> dom, month |-> month, len |-> len, digits |-> digits]

\* What the random module can give during one iteration of the generator:
\* r and the fractions u, w out of FracDen; t and c index the two choices.
Draw(r, u, w, t, c, ints) ==
    [r |-> r, u |-> u, w |-> w, t |-> t, c |-> c, dow |-> ints.dow,
     dom |-> ints.dom, month |-> ints.month, len |-> ints.len, digits |-> ints.digits]

Draws ==
    { Draw(0, 0, 0, 1, 1, Ints(0, 1, 1, 8, 5)),
      Draw(79, 100, 100, 2, 7, Ints(6, 28, 12, 15, 10)),
      Draw(50, 50, 50, 3, 4, Ints(2, 15, 10, 11, 7)),
      Draw(80, 0, 0, 1, 1, Ints(1, 2, 3, 9, 6)),
      Draw(99, 0, 100, 2, 7, Ints(3, 14, 6, 12, 8)),
      Draw(90, 100, 0, 2, 3, Ints(4, 20, 7, 10, 9)),
      Draw(85, 50, 50, 3, 2, Ints(5, 27, 11, 14, 10)),
      Draw(95, 50, 50, 4, 5, Ints(6, 9, 2, 13, 5)) }

DrawSeqs(n) == [1..n -> Draws]

\* The two invoices main() scores, one with an amount far off, and vectors
\* of seven and of nine features.
NormalInvoice == <<15000, 9, 250, 2, 15, 10, 11, 7>>
SuspiciousInvoice == <<50000, 10, 0, 1, 29, 10, 12, 7>>
HugeInvoice == <<400000, 12, 0, 6, 1, 1, 8, 5>>
ShortVector == <<15000, 9, 250, 2, 15, 10, 11>>
LongVector == <<15000, 9, 250, 2, 15, 10, 11, 7, 0>>
Vectors == {NormalInvoice, SuspiciousInvoice, HugeInvoice, ShortVector, LongVector}

Labelled(a, y) == [data |-> a, labels |-> y]

Row(amount, ints) == Features(amount, ints)

\* Six invoices; the split tests on the last two (one normal, one anomalous).
DataA ==
    Labelled(Array(<< Row(15250, Ints(2, 15, 10, 11, 7)),
                      Row(12800, Ints(1, 3, 4, 9, 6)),
                      Row(18400, Ints(3, 22, 7, 12, 8)),
                      Row(16100, Ints(4, 9, 1, 10, 5)),
                      Row(15900, Ints(2, 12, 6, 11, 7)),
                      Row(100000, Ints(6, 28, 12, 15, 10)) >>, 2),
             <<0, 0, 0, 0, 0, 1>>)

\* Six other invoices; the split tests on two anomalies, one of which looks
\* like the training set.
DataB ==
    Labelled(Array(<< Row(10000, Ints(0, 1, 1, 8, 5)),
                      Row(20000, Ints(5, 27, 11, 14, 10)),
                      Row(15000, Ints(6, 14, 6, 12, 8)),
                      Row(11500, Ints(3, 20, 3, 13, 9)),
                      Row(14800, Ints(4, 16, 5, 12, 8)),
                      Row(400000, Ints(1, 2, 9, 9, 6)) >>, 2),
             <<1, 1, 1, 0, 1, 1>>)

\* Five rows of seven features each.
Data7 ==
    Labelled(Array(<< ShortVector,
                      <<12800, 9, 800, 1, 3, 4, 9>>,
                      <<18400, 9, 400, 3, 22, 7, 12>>,
                      <<16100, 9, 100, 4, 9, 1, 10>>,
                      <<90000, 11, 0, 6, 28, 12, 15>> >>, 2),
             <<0, 0, 0, 0, 1>>)

\* A flat array passed as the training data.
Data1D == Labelled(Array(<<1, 2, 3, 4, 5>>, 1), <<0, 0, 0, 0, 1>>)

\* No samples at all.
DataEmpty == Labelled(Array(<<>>, 1), <<>>)

\* Fewer labels than rows.
DataMismatch == Labelled(DataA.data, <<0, 1>>)

Datasets == <<DataA, DataB, Data7, Data1D, DataEmpty, DataMismatch>>

\* What datetime.now().isoformat() can give.
Timestamps == {"2025-01-01T09:00:00", "2025-01-02T09:00:00"}

\* A pickle of a dict without the 'scaler' key, and one without 'is_trained'.
NoScalerBundle ==
    PickleDump(<< <<"models", EmptyDict>>, <<"is_trained", TRUE>>,
                  <<"trained_at", "2024-12-31T09:00:00">> >>)
NoFlagBundle ==
    PickleDump(<< <<"models", EmptyDict>>, <<"scaler", NewScaler>> >>)

\* What a path may hold before the program first runs.
InitFiles == <<MissingFile, UnreadableFile, GarbageFile, NoScalerBundle, NoFlagBundle>>

\* ------------------------------------------------------------ the machine
St(e) == [models |-> models[e], scaler |-> scaler[e], is_trained |-> is_trained[e]]

NoCall ==
    [op |-> "init", eng |-> "A", arg |-> None, was_trained |-> FALSE,
     ret |-> Returned(None), report |-> None]

Init ==
    /\ models = [e \in Engines |-> NewEngine.models]
    /\ scaler = [e \in Engines |-> NewEngine.scaler]
    /\ is_trained = [e \in Engines |-> NewEngine.is_trained]
    /\ \E i \in 1..Len(InitFiles) : files = [p \in Paths |-> InitFiles[i]]
    /\ last = NoCall

\* Engine e ran op on arg: its fields become the call's, and the call, the
\* trained flag at entry and the outcome are remembered in last.
Call(e, op, arg, res) ==
    /\ models' = [models EXCEPT ![e] = res.st.models]
    /\ scaler' = [scaler EXCEPT ![e] = res.st.scaler]
    /\ is_trained' = [is_trained EXCEPT ![e] = res.st.is_trained]
    /\ last' = [op |-> op, eng |-> e, arg |-> arg, was_trained |-> is_trained[e],
                ret |-> res.ret, report |-> res.report]

Train ==
    \E e \in Trainers : \E i \in 1..Len(Datasets) :
        /\ Call(e, "train", [dataset |-> i],
                TrainModels(St(e), Datasets[i].data, Datasets[i].labels))
        /\ UNCHANGED files

\* _evaluate_models called with as many labels as rows.
Evaluate ==
    \E e \in Trainers : \E i \in 1..Len(Datasets) :
        /\ NRows(Datasets[i].data) = Len(Datasets[i].labels)
        /\ Call(e, "evaluate", [dataset |-> i],
                EvaluateModels(St(e), Datasets[i].data, Datasets[i].labels))
        /\ UNCHANGED files

Predict ==
    \E e \in Engines : \E v \in Vectors :
        /\ Call(e, "predict", [vector |-> v], PredictAnomaly(St(e), v))
        /\ UNCHANGED files

Save ==
    \E e \in Engines : \E p \in Paths : \E now \in Timestamps :
        /\ files' = [files EXCEPT ![p] = SaveModels(St(e), now)]
        /\ Call(e, "save", [path |-> p], Result(St(e), Returned(None), None))

Load ==
    \E e \in Engines : \E p \in Paths :
        /\ Call(e, "load", [path |-> p], LoadModels(St(e), files[p]))
        /\ UNCHANGED files

Next == Train \/ Evaluate \/ Predict \/ Save \/ Load

Spec == Init /\ [][Next]_vars

\* generate_training_data keeps no state: the batch is its return value.
Generate ==
    \E n \in 0..MaxSamples : \E draws \in DrawSeqs(n) :
        /\ last' = [op |-> "generate", eng |-> "A",
                    arg |-> [num_samples |-> n, draws |-> draws],
                    was_trained |-> is_trained["A"],
                    ret |-> Returned(GenerateTrainingData(n, draws)), report |-> None]
        /\ UNCHANGED <<models, scaler, is_trained, files>>

GenNext == Generate

GenSpec == Init /\ [][GenNext]_vars

\* ------------------------------------------------------------ properties
\* The engine's fields after the step.
StNext(e) ==
    [models |-> models'[e], scaler |-> scaler'[e], is_trained |-> is_trained'[e]]

\* The engine is as __init__ left it.
Fresh(e) == St(e) = NewEngine

\* The step leaves the engine's three fields as they were.
Untouched(e) ==
    /\ models'[e] = models[e]
    /\ scaler'[e] = scaler[e]
    /\ is_trained'[e] = is_trained[e]

IsVerdict(ret) ==
    ret.kind = "return" /\ DOMAIN ret.val = {"is_anomaly", "anomaly_score", "confidence", "method"}

\* C1 (as amended): predict_anomaly on an engine as __init__ left it returns
\* normally, whatever the vector, the dict {"error": "Models not trained
\* yet!"}: a dict with the one key "error" and no is_anomaly, anomaly_score,
\* confidence or method; it raises nothing.
C1_UntrainedPredictReturnsErrorDict ==
    [][(last'.op = "predict" /\ Fresh(last'.eng))
         => /\ last'.ret.kind = "return"
            /\ DOMAIN last'.ret.val = {"error"}
            /\ last'.ret.val.error = "Models not trained yet!"
            /\ ~IsVerdict(last'.ret)]_vars

\* C1 as first stated: on a fresh engine predict_anomaly gives no verdict and
\* fails with an error outcome (an exception), not a normal return value.
C1_UntrainedPredictRaises ==
    [][(last'.op = "predict" /\ Fresh(last'.eng))
         => (~IsVerdict(last'.ret) /\ last'.ret.kind = "raise")]_vars

\* A fresh engine was asked for a prediction and answered with the error dict.
C1_Witness ==
    last.op = "predict" /\ Fresh(last.eng) /\ last.ret = Returned(NotTrained)

\* C2: load_models on a path that holds no file returns False, raises nothing
\* and leaves models, scaler and is_trained as they were; an engine that was
\* untrained is still untrained, and predict_anomaly on it gives the
\* "not trained" error.
C2_MissingLoadReturnsFalseUnchanged ==
    [][(last'.op = "load" /\ files[last'.arg.path].kind = "missing")
         => /\ last'.ret = Returned(False)
            /\ Untouched(last'.eng)
            /\ ~is_trained[last'.eng]
                 => /\ ~is_trained'[last'.eng]
                    /\ \A v \in Vectors :
                         PredictAnomaly(StNext(last'.eng), v).ret = Returned(NotTrained)]_vars

\* A trained engine called load_models on a missing file, got False and still
\* has its models.
C2_Witness ==
    /\ last.op = "load" /\ last.ret = Returned(False)
    /\ files[last.arg.path].kind = "missing"
    /\ is_trained[last.eng] /\ HasKey(models[last.eng], "isolation_forest")

\* The file exists but cannot be read, is no pickle, or is the pickle of a
\* dict that lacks one of the three keys.
Corrupt(file) ==
    \/ file.kind \in {"unreadable", "garbage"}
    \/ /\ file.kind = "pickle"
       /\ \E k \in {"models", "scaler", "is_trained"} : ~PickleHas(file, k)

\* C3: load_models on an artifact that exists but is unreadable or corrupt
\* gives the caller a failure result (False); no exception leaves
\* load_models.
C3_CorruptLoadReturnsFailure ==
    [][(last'.op = "load" /\ Corrupt(files[last'.arg.path]))
         => last'.ret = Returned(False)]_vars

\* C4: when a trained engine has just saved to a path and another engine,
\* still as __init__ left it, loads that path, load_models returns True, the
\* two trained flags are equal, and predict_anomaly gives the same outcome
\* (is_anomaly, anomaly_score, confidence, method, or the same exception) on
\* both engines for every vector.
C4_SaveLoadRoundTrip ==
    [][(/\ last.op = "save" /\ last.ret.kind = "return" /\ is_trained[last.eng]
        /\ last'.op = "load" /\ last'.eng # last.eng
        /\ last'.arg.path = last.arg.path
        /\ Fresh(last'.eng))
         => /\ last'.ret = Returned(True)
            /\ is_trained'[last'.eng] = is_trained'[last.eng]
            /\ \A v \in Vectors :
                 PredictAnomaly(StNext(last'.eng), v).ret
                   = PredictAnomaly(StNext(last.eng), v).ret]_vars

\* An engine that was untrained has loaded a bundle, is trained, holds what
\* another engine holds and gives a verdict on an invoice.
C4_Witness ==
    /\ last.op = "load" /\ last.ret = Returned(True) /\ ~last.was_trained
    /\ is_trained[last.eng]
    /\ \E a \in Engines \ {last.eng} : St(a) = St(last.eng)
    /\ IsVerdict(PredictAnomaly(St(last.eng), NormalInvoice).ret)

\* What train_models leaves in a fresh engine, for each data set.
TrainedFresh ==
    [i \in 1..Len(Datasets) |->
       TrainModels(NewEngine, Datasets[i].data, Datasets[i].labels).st]

\* C5: after a train_models call that returns, whatever the engine held
\* before (in particular what an earlier train_models fitted), the scaler and
\* both detectors are those train_models gives on a fresh engine for the same
\* data and labels, and is_trained is true.
C5_RetrainReplacesState ==
    [][(last'.op = "train" /\ last'.ret.kind = "return")
         => LET fresh == TrainedFresh[last'.arg.dataset]
                e == last'.eng
            IN /\ scaler'[e] = fresh.scaler
               /\ models'[e]["isolation_forest"] = fresh.models["isolation_forest"]
               /\ models'[e]["dbscan"] = fresh.models["dbscan"]
               /\ DOMAIN models'[e] = {"isolation_forest", "dbscan"}
               /\ is_trained'[e]]_vars

\* A trained engine was trained again and the call returned; the other
\* engine still holds, from a bundle saved in between, the different scaler
\* the first training had fitted.
C5_Witness ==
    /\ last.op = "train" /\ last.ret.kind = "return" /\ last.was_trained
    /\ is_trained[last.eng]
    /\ \E b \in Engines \ {last.eng} :
         /\ scaler[b].fitted /\ scaler[b].n_features_in = NumFeatures
         /\ scaler[last.eng].n_features_in = NumFeatures
         /\ scaler[b] # scaler[last.eng]

\* C6: a call of predict_anomaly or of _evaluate_models, whatever it returns
\* or raises, leaves models, scaler (its fitted mean and scale) and
\* is_trained of the engine as they were.
C6_PredictEvaluateReadOnly ==
    [][(last'.op \in {"predict", "evaluate"}) => Untouched(last'.eng)]_vars

\* A trained engine gave a verdict and its scaler is still the fitted one.
C6_Witness ==
    /\ last.op = "predict" /\ IsVerdict(last.ret)
    /\ scaler[last.eng].fitted /\ scaler[last.eng].n_samples_seen > 1

\* C7: on a trained engine predict_anomaly with a vector of a length other
\* than 8 raises and returns no verdict.
C7_WrongArityRaises ==
    [][(/\ last'.op = "predict" /\ is_trained[last'.eng]
        /\ Len(last'.arg.vector) # NumFeatures)
         => (last'.ret.kind = "raise" /\ ~IsVerdict(last'.ret))]_vars

\* The call generate_training_data(num_samples) just made: its argument, the
\* random draws it consumed and the pair of arrays it returned.
GenCall == last.op = "generate" /\ last.ret.kind = "return"
GenRows == last.ret.val.features.rows
GenLabels == last.ret.val.labels
GenDraws == last.arg.draws

\* C8: generate_training_data(n), n >= 0, returns n feature rows and n
\* labels; label i is 0 when iteration i took the normal generator (its
\* random.random() was below 0.8) and row i is that generator's invoice, and
\* 1 with the anomalous generator's invoice otherwise; every row has 8
\* entries.
C8_GeneratedBatchShape ==
    GenCall =>
      /\ Len(GenRows) = last.arg.num_samples
      /\ Len(GenLabels) = last.arg.num_samples
      /\ \A i \in 1..last.arg.num_samples :
           /\ Len(GenRows[i]) = NumFeatures
           /\ IsNormalDraw(GenDraws[i])
                => GenLabels[i] = 0 /\ GenRows[i] = GenerateNormalInvoice(GenDraws[i])
           /\ ~IsNormalDraw(GenDraws[i])
                => GenLabels[i] = 1 /\ GenRows[i] = GenerateAnomalousInvoice(GenDraws[i])

\* A batch of two whose first invoice is anomalous and whose second is normal.
C8_Witness ==
    /\ GenCall /\ last.arg.num_samples = 2
    /\ GenLabels = <<1, 0>>
    /\ ~IsNormalDraw(GenDraws[1]) /\ IsNormalDraw(GenDraws[2])

\* The amounts the two generators give over every pair of fractions.
NormalAmounts ==
    {GenerateNormalInvoice(Draw(0, u, w, 1, 1, Ints(0, 1, 1, 8, 5)))[1] :
       u \in 0..FracDen, w \in 0..FracDen}
HighAmounts ==
    {GenerateAnomalousInvoice(Draw(FracDen - 1, u, 0, 2, 1, Ints(0, 1, 1, 8, 5)))[1] :
       u \in 0..FracDen}

\* C9: the amount (entry 0 in the source, the first here) of every normal
\* invoice of a batch lies in [4500, 50500], and that of every anomalous
\* invoice of the high_amount archetype in [100000, 500000].
C9_AmountBands ==
    GenCall =>
      /\ \A i \in 1..Len(GenRows) :
           /\ GenLabels[i] = 0
                => /\ 4500 <= GenRows[i][1] /\ GenRows[i][1] <= 50500
                   /\ GenRows[i][1] \in NormalAmounts
           /\ (GenLabels[i] = 1 /\ AnomalyTypes[GenDraws[i].t] = "high_amount")
                => /\ 100000 <= GenRows[i][1] /\ GenRows[i][1] <= 500000
                   /\ GenRows[i][1] \in HighAmounts
      /\ \A x \in NormalAmounts : 4500 <= x /\ x <= 50500
      /\ \A y \in HighAmounts : 100000 <= y /\ y <= 500000

\* A batch with a normal invoice at an end of its band and a high_amount
\* anomaly at an end of its band.
C9_Witness ==
    /\ GenCall
    /\ \E i \in 1..Len(GenRows) :
         GenLabels[i] = 0 /\ GenRows[i][1] \in {4500, 50500}
    /\ \E i \in 1..Len(GenRows) :
         /\ GenLabels[i] = 1 /\ AnomalyTypes[GenDraws[i].t] = "high_amount"
         /\ GenRows[i][1] \in {100000, 500000}

\* The test split _evaluate_models was given in the last call: the arrays of
\* the call itself, or, inside train_models, the scaled test rows and their
\* labels.
EvalCall == last.op \in {"evaluate", "train"} /\ last.ret.kind = "return"
EvalX ==
    LET d == Datasets[last.arg.dataset] IN
    IF last.op = "evaluate" THEN d.data.rows
    ELSE ScalerTransform(scaler[last.eng],
                         Array(Take(d.data.rows, TestIdx(NRows(d.data))), 2)).rows
EvalY ==
    LET d == Datasets[last.arg.dataset] IN
    IF last.op = "evaluate" THEN d.labels
    ELSE Take(d.labels, TestIdx(NRows(d.data)))

\* C10: with d_i the primary detector's decision on test sample i, the
\* accuracy _evaluate_models computes is the number of samples whose label
\* equals (1 if d_i = -1, 0 if d_i = 1) over the number of samples (printed
\* rounded to a hundredth of a percent); the detected count is the number of
\* d_i = -1 and the actual count the number of labels equal to 1.
C10_EvaluationCounts ==
    EvalCall =>
      LET det == models[last.eng]["isolation_forest"]
          m == Len(EvalX)
          dec == [i \in 1..m |-> IsoPredict(det, EvalX[i])]
          agree == {i \in 1..m : \/ dec[i] = -1 /\ EvalY[i] = 1
                                 \/ dec[i] = 1 /\ EvalY[i] = 0}
          r == last.report
      IN /\ r.accuracy.num = Cardinality(agree)
         /\ r.accuracy.den = m
         /\ 2 * Abs(r.accuracy_text * m - 10000 * Cardinality(agree)) <= m
         /\ r.anomalies_detected = Cardinality({i \in 1..m : dec[i] = -1})
         /\ r.actual_anomalies = Cardinality({i \in 1..m : EvalY[i] = 1})

\* train_models evaluated a test split of two anomalies of which the detector
\* found one.
C10_Witness ==
    /\ EvalCall /\ last.op = "train"
    /\ last.report.accuracy = [num |-> 1, den |-> 2]
    /\ last.report.anomalies_detected = 1
    /\ last.report.actual_anomalies = 2

\* The engine's scaler and primary detector are those one train_models call
\* fitted together: the detector was fitted on rows scaled by this scaler.
FittedTogether(e) ==
    /\ scaler[e].fitted
    /\ HasKey(models[e], "isolation_forest")
    /\ \E i \in 1..Len(Datasets) :
         /\ TrainedFresh[i].is_trained
         /\ scaler[e] = TrainedFresh[i].scaler
         /\ models[e]["isolation_forest"] = TrainedFresh[i].models["isolation_forest"]

\* The vectors of exactly NumFeatures entries.
ValidVectors == {v \in Vectors : Len(v) = NumFeatures}

\* C11: in every state any sequence of train_models, load_models,
\* save_models and predict_anomaly calls reaches, calls that raise part-way
\* included, an engine whose is_trained is true has a fitted scaler and an
\* 'isolation_forest' fitted on data scaled by that scaler, and (when that
\* scaler was fitted on 8 columns) predict_anomaly on every 8-entry vector
\* returns a verdict.
C11_TrainedEngineUsable ==
    \A e \in Engines :
      is_trained[e]
        => /\ FittedTogether(e)
           /\ scaler[e].n_features_in = NumFeatures
                => \A v \in ValidVectors : IsVerdict(PredictAnomaly(St(e), v).ret)

====
